---- MODULE Spec2Model ----
(***************************************************************************)
(* Model of src/main.py: the HTTP-triggered function `main` that locates a *)
(* user's workbook in blob storage, appends its rows to the SQL table and  *)
(* publishes the embedded images of the sheets after the first four,       *)
(* archiving an image that already sits at a sheet's target path.          *)
(*                                                                         *)
(* Text is modelled as a sequence of one-character strings so that the     *)
(* substring test, the f-string path templates and strftime are computed,  *)
(* not assumed.  Python's None is the distinguished value None.            *)
(***************************************************************************)
EXTENDS Integers, Sequences, FiniteSets, TLC

\* ------------------------------------------------------------------ bounds
MaxInvocations == 2     \* requests served in one behaviour
MaxFaults      == 2     \* remote calls / decodes that raise in one behaviour
MaxTick        == 2     \* the wall clock runs from tick 0 to MaxTick
TicksPerSecond == 2     \* clock resolution: ticks inside one formatted second

\* --------------------------------------------------------------- text
None == <<"None">>

\* f"{x}" of an optional string (main.py:52)
Str(x) == IF x = None THEN <<"N","o","n","e">> ELSE x

\* bool(x) of an optional string (main.py:46)
Truthy(x) == x # None /\ x # <<>>

\* Python's `s in t` for two strings (main.py:46)
IsSubstring(s, t) ==
    \E i \in 0..(Len(t) - Len(s)) : SubSeq(t, i + 1, i + Len(s)) = s

StartsWith(t, p) == Len(p) <= Len(t) /\ SubSeq(t, 1, Len(p)) = p

Digit(n) == <<"0","1","2","3","4","5","6","7","8","9">>[n + 1]

\* two-digit zero-padded field of strftime
Digits2(n) == <<Digit((n \div 10) % 10), Digit(n % 10)>>

\* datetime.now(tz).strftime("%Y-%m-%d %H:%M:%S") (main.py:61-62): the clock
\* tick is truncated to whole seconds; the day itself is fixed in the model.
StrfTime(tick) ==
    LET sec == tick \div TicksPerSecond IN
    <<"2","0","2","6","-","0","1","-","0","1"," ">>
        \o Digits2((sec \div 3600) % 24) \o <<":">>
        \o Digits2((sec \div 60) % 60) \o <<":">>
        \o Digits2(sec % 60)

\* ------------------------------------------------------------ path templates
ListPrefix == <<"D","A","T","A","S","E","T","/","C","u","r","r","e","n","t">>

\* f"DATASET/{sheet.title}/{sheet.title}.png" (main.py:108)
TargetPath(title) ==
    <<"D","A","T","A","S","E","T","/">> \o title \o <<"/">> \o title
        \o <<".","p","n","g">>

\* f"DATASET/{sheet.title}/Archive/{sheet.title}_{current_time}.png" (main.py:113)
ArchivePath(title, time) ==
    <<"D","A","T","A","S","E","T","/">> \o title
        \o <<"/","A","r","c","h","i","v","e","/">> \o title \o <<"_">> \o time
        \o <<".","p","n","g">>

\* mutant: the message leaves the identifier out
NotFoundMessageAnonymous(email) ==
    <<"N","o"," ","f","i","l","e"," ","f","o","u","n","d">>

\* f"No file found for user {user_email}" (main.py:52)
NotFoundMessage(email) ==
    <<"N","o"," ","f","i","l","e"," ","f","o","u","n","d"," ","f","o","r"," ",
      "u","s","e","r"," ">> \o Str(email)

LoadFailedMessage == <<"Database upload failed.">>
SuccessMessage    == <<"{\"msg\": \"success\"}">>

\* ------------------------------------------------------------- workbooks
\* cell.coordinate: column letter followed by the row number
Coordinate(col, row) ==
    <<<<"A","B","C","D","E","F","G","H","I","J","K","L","M","N">>[col]>>
        \o (IF row < 10 THEN <<Digit(row)>> ELSE Digits2(row))

Sheet(title, rows, cols, images) ==
    [title |-> title, max_row |-> rows, max_column |-> cols, images |-> images]

\* The workbook of user a: sheet Q3 holds images in two cells of row 1, in one
\* cell of row 2 and one of row 3, in the excluded cells A1 and M3 and in a
\* cell below the sheet's used range.
WorkbookA ==
    << Sheet(<<"S","h","e","e","t","1">>, 2, 2, {}),
       Sheet(<<"S","2">>, 1, 2, {<<"B","1">>}),
       Sheet(<<"S","3">>, 1, 1, {}),
       Sheet(<<"S","4">>, 1, 1, {}),
       Sheet(<<"Q","3">>, 3, 13,
             {<<"A","1">>, <<"B","1">>, <<"C","1">>, <<"B","2">>, <<"D","3">>,
              <<"M","3">>, <<"B","4">>}) >>

\* The workbook of user b: a sheet Q3 of its own and a sheet Q4 whose images
\* sit in the excluded cells I1, K1, L1 and in J1.
WorkbookB ==
    << Sheet(<<"S","h","e","e","t","1">>, 1, 2, {}),
       Sheet(<<"S","2">>, 1, 1, {}),
       Sheet(<<"S","3">>, 1, 1, {}),
       Sheet(<<"S","4">>, 1, 1, {<<"A","1">>}),
       Sheet(<<"Q","3">>, 1, 2, {<<"B","1">>}),
       Sheet(<<"Q","4">>, 1, 12,
             {<<"I","1">>, <<"J","1">>, <<"K","1">>, <<"L","1">>}) >>

\* ------------------------------------------------------------ blob contents
Xlsx(wb)  == [kind |-> "xlsx", data |-> <<wb>>]
Png(wb, title, coord) == [kind |-> "png", data |-> <<wb, title, coord>>]
EmptyBlob == [kind |-> "empty", data |-> <<>>]

\* len() of a blob's bytes
Size(content) == IF content.kind = "empty" THEN 0 ELSE 1

\* openpyxl's view of the downloaded bytes
Sheets(content) ==
    IF content = Xlsx("a") THEN WorkbookA
    ELSE IF content = Xlsx("b") THEN WorkbookB
    ELSE <<>>

\* the DATASET_ID column of Sheet1, as pandas reads it (main.py:58)
DatasetIds(content) ==
    IF content = Xlsx("a") THEN << <<"Q","3">> >>
    ELSE IF content = Xlsx("b") THEN << <<"Q","3">>, <<"Q","4">> >>
    ELSE <<>>

SourceName(user) ==
    ListPrefix \o <<"_">> \o user \o <<".","x","l","s","x">>

EmptyStore == [p \in {} |-> EmptyBlob]

InitialStore ==
    (SourceName(<<"a">>) :> Xlsx("a"))
        @@ (SourceName(<<"b">>) :> Xlsx("b"))
        @@ (SourceName(<<"0">>) :> EmptyBlob)

\* the values req.params.get("email") takes in the model (main.py:32)
Emails == {None, <<>>, <<"a">>, <<"b">>, <<"z">>, <<"0">>}

VARIABLES
    store,          \* the container: blob name -> content
    table,          \* the DATASET table: the rows appended so far
    now,            \* the wall clock, in ticks
    invocations,    \* requests accepted so far
    faults,         \* exceptions raised so far
    pc,             \* position of the running invocation in main
    user_email,     \* main.py:32
    blob_data,      \* main.py:44-49
    current_time,   \* main.py:62
    load,           \* outcome of df.to_sql in this invocation
    pos,            \* the cell the nested loops of main.py:97-100 are at
    png,            \* png_buffer of the image being published
    existed,        \* what blob_client.exists() returned
    response,       \* the HttpResponse returned
    log,            \* history: the image steps of this invocation
    pre,            \* history: the container when the current publish began
    store0,         \* history: the container when the invocation began
    table0          \* history: the table when the invocation began

vars == <<store, table, now, invocations, faults, pc, user_email, blob_data,
          current_time, load, pos, png, existed, response, log, pre, store0,
          table0>>

NoBlob     == [found |-> FALSE, name |-> <<>>, content |-> EmptyBlob]
NoResponse == [status |-> 0, body |-> <<>>]
NoPos      == [s |-> 0, r |-> 0, c |-> 0]

Init ==
    /\ store = InitialStore
    /\ table = <<>>
    /\ now = 0
    /\ invocations = 0
    /\ faults = 0
    /\ pc = "idle"
    /\ user_email = None
    /\ blob_data = NoBlob
    /\ current_time = <<>>
    /\ load = "none"
    /\ pos = NoPos
    /\ png = EmptyBlob
    /\ existed = FALSE
    /\ response = NoResponse
    /\ log = <<>>
    /\ pre = EmptyStore
    /\ store0 = InitialStore
    /\ table0 = <<>>

\* ------------------------------------------------------------- helpers
\* container_client.list_blobs(name_starts_with="DATASET/Current") (main.py:45)
Listing(st) == {n \in DOMAIN st : StartsWith(n, ListPrefix)}

\* mutant: only an absent identifier is guarded, an empty one is tested
MatchesUnlessAbsent(email, name) == email # None /\ IsSubstring(email, name)

\* `user_email and user_email in blob.name` (main.py:46)
Matches(email, name) == Truthy(email) /\ IsSubstring(email, name)

\* What the loop of main.py:44-49 can leave in blob_data: the download of the
\* first listed blob that matches, in whatever order the service lists them,
\* or None when none matches.
Located(st, email) ==
    IF \E n \in Listing(st) : Matches(email, n)
    THEN {[found |-> TRUE, name |-> n, content |-> st[n]] :
              n \in {m \in Listing(st) : Matches(email, m)}}
    ELSE {NoBlob}

\* `not blob_data` (main.py:51): None, or a downloader whose len() is 0
NotBlobData(b) == ~b.found \/ Size(b.content) = 0

\* The frame of main.py:58-79 as to_sql receives it: one record per row of
\* Sheet1 with the injected metadata columns.
Records(content, time, email) ==
    [i \in 1..Len(DatasetIds(content)) |->
        [DATASET_ID    |-> DatasetIds(content)[i],
         Create_date   |-> time,
         Last_modified |-> time,
         Created_by    |-> email]]

SkipSheets == 4

\* workbook.worksheets[4:] (main.py:93-94)
Worksheets(content) ==
    SubSeq(Sheets(content), SkipSheets + 1, Len(Sheets(content)))

\* mutant: I1 is missing from the list
ExcludedCellsWithoutI1 ==
    {<<"A","1">>, <<"K","1">>, <<"L","1">>, <<"M","3">>}

\* excluded_cells (main.py:95)
ExcludedCells ==
    {<<"A","1">>, <<"K","1">>, <<"L","1">>, <<"M","3">>, <<"I","1">>}

\* image_loader.image_in(cell.coordinate) and
\* cell.coordinate not in excluded_cells (main.py:101)
Extractable(sheet, coord) ==
    coord \in sheet.images /\ coord \notin ExcludedCells

\* the cell iter_rows yields after p when the row is scanned on
NextRow(p, ws) ==
    IF p.r < ws[p.s].max_row
    THEN [s |-> p.s, r |-> p.r + 1, c |-> 1]
    ELSE [s |-> p.s + 1, r |-> 1, c |-> 1]

NextCell(p, ws) ==
    IF p.c < ws[p.s].max_column
    THEN [s |-> p.s, r |-> p.r, c |-> p.c + 1]
    ELSE NextRow(p, ws)

\* mutant: an exception ends the image loops
ContinueAborts(p, ws) == [s |-> Len(ws) + 1, r |-> 1, c |-> 1]

\* `continue` in the except clause (main.py:121-123): the next cell of the row
Continue(p, ws) == NextCell(p, ws)

\* mutant: no break, the row is scanned on after an upload
BreakMissing(p, ws) == NextCell(p, ws)

\* `break` after an upload (main.py:120): the rest of the row is skipped
Break(p, ws) == NextRow(p, ws)

\* The loops of main.py:97-101 run on from cell p, sheet by sheet, row by row
\* and cell by cell, up to the first cell whose image is to be extracted; a
\* position past the last sheet means the loops are exhausted.
RECURSIVE Seek(_, _)
Seek(p, ws) ==
    IF p.s > Len(ws) THEN p
    ELSE IF Extractable(ws[p.s], Coordinate(p.c, p.r)) THEN p
    ELSE Seek(NextCell(p, ws), ws)

\* where control is once the loops stand at p: in the try block, or at line 125
PcAt(p, ws) == IF p.s > Len(ws) THEN "respond" ELSE "decode"

ws    == Worksheets(blob_data.content)
sheet == ws[pos.s]
coord == Coordinate(pos.c, pos.r)

LogEntry(op, ok) ==
    [op |-> op, ok |-> ok, sheet |-> sheet.title, row |-> pos.r, coord |-> coord]

Remove(st, p) == [q \in DOMAIN st \ {p} |-> st[q]]

Locals == <<user_email, blob_data, current_time, load>>
Sinks  == <<store, table>>
Hist0  == <<store0, table0>>
World  == <<now, invocations>>

\* ------------------------------------------------------------- actions
\* The loops resume at cell p: control reaches the try block of the next cell
\* to extract (the container as it is then is remembered in pre), or line 125.
Resume(p, st) ==
    /\ pos' = Seek(p, ws)
    /\ pc' = PcAt(pos', ws)
    /\ pre' = IF pc' = "decode" THEN st ELSE EmptyStore

\* the clock advances between requests
Tick ==
    /\ pc \in {"idle", "done", "crashed"}
    /\ now < MaxTick
    /\ now' = now + 1
    /\ UNCHANGED <<store, table, invocations, faults, pc, user_email,
                   blob_data, current_time, load, pos, png, existed, response,
                   log, pre, store0, table0>>

\* a request arrives (main.py:27-41)
Request(email) ==
    /\ pc \in {"idle", "done", "crashed"}
    /\ invocations < MaxInvocations
    /\ invocations' = invocations + 1
    /\ user_email' = email
    /\ blob_data' = NoBlob
    /\ current_time' = <<>>
    /\ load' = "none"
    /\ pos' = NoPos
    /\ png' = EmptyBlob
    /\ existed' = FALSE
    /\ response' = NoResponse
    /\ log' = <<>>
    /\ pre' = EmptyStore
    /\ store0' = store
    /\ table0' = table
    /\ pc' = "locate"
    /\ UNCHANGED <<store, table, now, faults>>

\* main.py:44-79: locate the workbook; answer 404 when blob_data is falsy,
\* otherwise read the frame and the request-time timestamp
Locate ==
    /\ pc = "locate"
    /\ \E b \in Located(store, user_email) :
          /\ blob_data' = b
          /\ IF NotBlobData(b)
             THEN /\ response' = [status |-> 404,
                                  body |-> NotFoundMessage(user_email)]
                  /\ pc' = "done"
                  /\ UNCHANGED current_time
             ELSE /\ current_time' = StrfTime(now)
                  /\ pc' = "load"
                  /\ UNCHANGED response
    /\ UNCHANGED <<Sinks, World, Hist0, faults, user_email, load, pos, png,
                   existed, log, pre>>

\* list_blobs or download_blob raises: nothing in main catches it
LocateFail ==
    /\ pc = "locate"
    /\ faults < MaxFaults
    /\ faults' = faults + 1
    /\ pc' = "crashed"
    /\ UNCHANGED <<Sinks, World, Hist0, Locals, pos, png, existed, response,
                   log, pre>>

\* main.py:85-87 and 93-95: the append succeeds; open the workbook
LoadOk ==
    /\ pc = "load"
    /\ table' = table \o Records(blob_data.content, current_time, user_email)
    /\ load' = "ok"
    /\ Resume([s |-> 1, r |-> 1, c |-> 1], store)
    /\ UNCHANGED <<store, World, Hist0, faults, user_email, blob_data,
                   current_time, png, existed, response, log>>

\* mutant: the failed append is logged and main falls through to the images
LoadFailFallsThrough ==
    /\ pc = "load"
    /\ faults < MaxFaults
    /\ faults' = faults + 1
    /\ load' = "failed"
    /\ Resume([s |-> 1, r |-> 1, c |-> 1], store)
    /\ UNCHANGED <<Sinks, World, Hist0, user_email, blob_data, current_time,
                   png, existed, response, log>>

\* main.py:88-90: the append raises
LoadFail ==
    /\ pc = "load"
    /\ faults < MaxFaults
    /\ faults' = faults + 1
    /\ load' = "failed"
    /\ response' = [status |-> 500, body |-> LoadFailedMessage]
    /\ pc' = "done"
    /\ UNCHANGED <<Sinks, World, Hist0, user_email, blob_data, current_time,
                   pos, png, existed, log, pre>>

\* an exception inside the try block (main.py:121-123)
Raise(op) ==
    /\ faults < MaxFaults
    /\ faults' = faults + 1
    /\ log' = Append(log, LogEntry(op, FALSE))
    /\ Resume(Continue(pos, ws), store)
    /\ png' = EmptyBlob
    /\ existed' = FALSE
    /\ UNCHANGED <<Sinks, World, Hist0, Locals, response>>

\* main.py:103-106
DecodeOk ==
    /\ pc = "decode"
    /\ png' = Png(blob_data.content.data[1], sheet.title, coord)
    /\ log' = Append(log, LogEntry("decode", TRUE))
    /\ pc' = "exists"
    /\ UNCHANGED <<Sinks, World, Hist0, Locals, faults, pos, existed,
                   response, pre>>

DecodeFail == pc = "decode" /\ Raise("decode")

\* main.py:108-112
ExistsOk ==
    /\ pc = "exists"
    /\ existed' = (TargetPath(sheet.title) \in DOMAIN store)
    /\ log' = Append(log, LogEntry("exists", TRUE))
    /\ pc' = IF existed' THEN "copy" ELSE "upload"
    /\ UNCHANGED <<Sinks, World, Hist0, Locals, faults, pos, png, response,
                   pre>>

ExistsFail == pc = "exists" /\ Raise("exists")

\* main.py:113-115: the copy writes the archive blob, replacing one of that name
CopyOk ==
    /\ pc = "copy"
    /\ store' = (ArchivePath(sheet.title, current_time)
                    :> store[TargetPath(sheet.title)]) @@ store
    /\ log' = Append(log, LogEntry("copy", TRUE))
    /\ pc' = "delete"
    /\ UNCHANGED <<table, World, Hist0, Locals, faults, pos, png, existed,
                   response, pre>>

\* mutant: a failed copy is swallowed and the publish goes on to the delete
CopyFailSwallowed ==
    /\ pc = "copy"
    /\ faults < MaxFaults
    /\ faults' = faults + 1
    /\ log' = Append(log, LogEntry("copy", FALSE))
    /\ pc' = "delete"
    /\ UNCHANGED <<Sinks, World, Hist0, Locals, pos, png, existed, response,
                   pre>>

CopyFail == pc = "copy" /\ Raise("copy")

\* main.py:116
DeleteOk ==
    /\ pc = "delete"
    /\ store' = Remove(store, TargetPath(sheet.title))
    /\ log' = Append(log, LogEntry("delete", TRUE))
    /\ pc' = "upload"
    /\ UNCHANGED <<table, World, Hist0, Locals, faults, pos, png, existed,
                   response, pre>>

DeleteFail == pc = "delete" /\ Raise("delete")

\* main.py:118-120
UploadOk ==
    /\ pc = "upload"
    /\ store' = (TargetPath(sheet.title) :> png) @@ store
    /\ log' = Append(log, LogEntry("upload", TRUE))
    /\ Resume(Break(pos, ws), store')
    /\ png' = EmptyBlob
    /\ existed' = FALSE
    /\ UNCHANGED <<table, World, Hist0, Locals, faults, response>>

UploadFail == pc = "upload" /\ Raise("upload")

\* main.py:125
Respond ==
    /\ pc = "respond"
    /\ response' = [status |-> 200, body |-> SuccessMessage]
    /\ pc' = "done"
    /\ UNCHANGED <<Sinks, World, Hist0, Locals, faults, pos, png, existed,
                   log, pre>>

Next ==
    \/ Tick
    \/ \E email \in Emails : Request(email)
    \/ Locate
    \/ LocateFail
    \/ LoadOk
    \/ LoadFail
    \/ DecodeOk
    \/ DecodeFail
    \/ ExistsOk
    \/ ExistsFail
    \/ CopyOk
    \/ CopyFail
    \/ DeleteOk
    \/ DeleteFail
    \/ UploadOk
    \/ UploadFail
    \/ Respond

Spec == Init /\ [][Next]_vars

\* ------------------------------------------------------------ properties
InPublish == pc \in {"decode", "exists", "copy", "delete", "upload"}

\* the coordinates the specification excludes
SpecExcluded ==
    {<<"A","1">>, <<"K","1">>, <<"L","1">>, <<"M","3">>, <<"I","1">>}

\* C1: the relational append has finished before any image step is attempted,
\* and an invocation whose append failed has answered 500 without attempting
\* any image step or touching the container.
C1_AppendBeforeImages ==
    /\ (InPublish \/ pc = "respond" \/ log # <<>>) =>
          /\ load = "ok"
          /\ table = table0 \o Records(blob_data.content, current_time,
                                       user_email)
    /\ load = "failed" =>
          /\ pc = "done"
          /\ response.status = 500
          /\ log = <<>>
          /\ store = store0
          /\ table = table0

\* the append of a workbook that holds images failed
C1_Witness ==
    /\ load = "failed"
    /\ response.status = 500
    /\ blob_data.content = Xlsx("a")

\* no blob listed under DATASET/Current holds the identifier in its name
NoObjectMatches ==
    \A n \in DOMAIN store0 :
        StartsWith(n, ListPrefix) =>
            (user_email = None \/ ~IsSubstring(user_email, n))

\* C2: an invocation whose identifier matches no listed object answers 404
\* with the identifier in the body, appends nothing and attempts no image
\* step: the container and the table are as they were.
C2_NoMatchIs404 ==
    (pc \notin {"idle", "locate", "crashed"} /\ NoObjectMatches) =>
        /\ pc = "done"
        /\ response.status = 404
        /\ IsSubstring(Str(user_email), response.body)
        /\ load = "none"
        /\ log = <<>>
        /\ store = store0
        /\ table = table0

\* the identifier z, which no blob name holds, was answered
C2_Witness ==
    /\ pc = "done"
    /\ user_email = <<"z">>
    /\ response.status = 404
    /\ Listing(store0) # {}

\* C3: an empty or absent identifier matches no object, whatever is listed:
\* the invocation answers 404 and no blob is selected.
C3_EmptyIdentifierMatchesNothing ==
    (pc \notin {"idle", "locate", "crashed"} /\ user_email \in {None, <<>>}) =>
        /\ pc = "done"
        /\ ~blob_data.found
        /\ response.status = 404
        /\ load = "none"
        /\ log = <<>>

\* the empty identifier was answered while workbooks were listed
C3_Witness ==
    /\ pc = "done"
    /\ user_email = <<>>
    /\ response.status = 404
    /\ Cardinality(Listing(store0)) >= 2

\* --- the image steps of the invocation, read off the log
DecodedOk(i)  == log[i].op = "decode" /\ log[i].ok
UploadedOk(i) == log[i].op = "upload" /\ log[i].ok
SameCell(i, j) == log[i].sheet = log[j].sheet /\ log[i].coord = log[j].coord
SameRow(i, j)  == log[i].sheet = log[j].sheet /\ log[i].row = log[j].row

\* the columns of row r of sheet sh whose image the specification extracts
CellsToExtract(sh, r) ==
    {c \in 1..sh.max_column :
        /\ Coordinate(c, r) \in sh.images
        /\ Coordinate(c, r) \notin SpecExcluded}

Attempted(sh, r, c) ==
    \E i \in DOMAIN log :
        log[i].sheet = sh.title /\ log[i].coord = Coordinate(c, r)

UploadedAt(sh, r, c) ==
    \E i \in DOMAIN log :
        UploadedOk(i) /\ log[i].sheet = sh.title
                      /\ log[i].coord = Coordinate(c, r)

\* every image cell of the row was attempted, up to the one that was uploaded
RowProcessed(sh, r) ==
    \A c \in CellsToExtract(sh, r) :
        \/ Attempted(sh, r, c)
        \/ \E d \in CellsToExtract(sh, r) : d < c /\ UploadedAt(sh, r, d)

\* C5: once the append has succeeded no failure of a decode, existence-check,
\* copy, delete or upload aborts the invocation: the answer is 200, and every
\* row of every scanned sheet was processed (each of its image cells was
\* attempted, up to the one whose upload succeeded).
C5_ImageFailuresIsolated ==
    load = "ok" =>
        /\ pc # "crashed"
        /\ pc = "done" =>
              /\ response.status = 200
              /\ \A k \in 1..Len(ws) : \A r \in 1..ws[k].max_row :
                     RowProcessed(ws[k], r)

\* an invocation answered 200 after two image steps failed and a later image
\* was uploaded
C5_Witness ==
    /\ pc = "done"
    /\ response.status = 200
    /\ \E i, j, k \in DOMAIN log :
          /\ i < j /\ j < k
          /\ ~log[i].ok /\ ~log[j].ok /\ log[i].op # log[j].op
          /\ UploadedOk(k)

\* C6 as stated: at most one image is decoded and emitted per scanned row,
\* whatever steps fail.
C6_OneExtractedPerRow ==
    \A i, j \in DOMAIN log :
        (i < j /\ DecodedOk(i) /\ DecodedOk(j)) => ~SameRow(i, j)

\* C6 amended: at most one image is uploaded per scanned row and nothing more
\* of a row is scanned after its upload; a further image of a row is decoded
\* only after a publish step of the one decoded before it failed; no cell is
\* extracted twice, and when nothing fails every row that holds an image to
\* extract yields exactly one ExtractedImage, that of its first such cell.
C6_OneUploadPerRow ==
    /\ \A i, j \in DOMAIN log :
          (i < j /\ SameRow(i, j)) =>
              /\ ~UploadedOk(i)
              /\ (DecodedOk(i) /\ DecodedOk(j)) =>
                    /\ ~SameCell(i, j)
                    /\ \E k \in DOMAIN log :
                          /\ i < k /\ k < j
                          /\ SameCell(i, k)
                          /\ ~log[k].ok
                          /\ log[k].op \in {"exists", "copy", "delete",
                                            "upload"}
    /\ (pc = "done" /\ response.status = 200
            /\ \A i \in DOMAIN log : log[i].ok) =>
          \A k \in 1..Len(ws) : \A r \in 1..ws[k].max_row :
              CellsToExtract(ws[k], r) # {} =>
                  \E i \in DOMAIN log :
                      /\ DecodedOk(i)
                      /\ log[i].sheet = ws[k].title
                      /\ log[i].row = r
                      /\ \A c \in CellsToExtract(ws[k], r) :
                             Coordinate(c, r) = log[i].coord
                                 \/ ~Attempted(ws[k], r, c)
                      /\ \A c \in CellsToExtract(ws[k], r) :
                             Attempted(ws[k], r, c) =>
                                 \A d \in CellsToExtract(ws[k], r) : c <= d

\* a row gave two ExtractedImages: the publish of the first failed, the second
\* was uploaded
C6_Witness ==
    /\ pc = "done"
    /\ \E i, j, k \in DOMAIN log :
          /\ i < j /\ j < k
          /\ DecodedOk(i) /\ DecodedOk(j) /\ SameRow(i, j)
          /\ UploadedOk(k) /\ SameCell(j, k)

\* C7: no image is extracted or published from an excluded coordinate, and a
\* row that holds an image in an excluded cell is scanned on: its other image
\* cells are processed as in any row.
C7_ExcludedNeverExtracted ==
    /\ \A i \in DOMAIN log : log[i].coord \notin SpecExcluded
    /\ InPublish => coord \notin SpecExcluded
    /\ \A p \in DOMAIN store :
          store[p].kind = "png" => store[p].data[3] \notin SpecExcluded
    /\ (pc = "done" /\ load = "ok") =>
          \A k \in 1..Len(ws) : \A r \in 1..ws[k].max_row :
              (\E c \in 1..ws[k].max_column :
                   Coordinate(c, r) \in ws[k].images \cap SpecExcluded)
                  => RowProcessed(ws[k], r)

\* the image of J1 was uploaded from a row whose cell I1, scanned before it,
\* holds an image too
C7_Witness ==
    /\ pc = "done"
    /\ response.status = 200
    /\ Len(ws) >= 2
    /\ <<"I","1">> \in ws[2].images
    /\ \E i \in DOMAIN log :
          UploadedOk(i) /\ log[i].sheet = ws[2].title
                        /\ log[i].coord = <<"J","1">>

\* --- the publish of one image
target  == TargetPath(sheet.title)
archive == ArchivePath(sheet.title, current_time)

\* the step before log entry i was the successful step op on the same cell
Follows(i, ops) ==
    /\ i > 1
    /\ log[i - 1].ok
    /\ log[i - 1].op \in ops
    /\ SameCell(i - 1, i)

\* the state of the container at each step of a publish
C10_PublishStates ==
    /\ InPublish =>
          /\ pc \in {"decode", "exists", "copy"} => store = pre
          /\ pc = "copy" => existed /\ target \in DOMAIN store
          /\ pc = "delete" =>
                /\ existed
                /\ target \in DOMAIN pre /\ target \in DOMAIN store
                /\ store[target] = pre[target]
                /\ archive \in DOMAIN store
                /\ store[archive] = pre[target]
          /\ pc = "upload" =>
                IF existed
                THEN /\ target \in DOMAIN pre /\ target \notin DOMAIN store
                     /\ archive \in DOMAIN store
                     /\ store[archive] = pre[target]
                ELSE store = pre /\ target \notin DOMAIN store
          /\ (target \in DOMAIN pre /\ target \notin DOMAIN store) =>
                (archive \in DOMAIN store /\ store[archive] = pre[target])
    /\ \A i \in DOMAIN log :
          /\ log[i].op = "exists" => Follows(i, {"decode"})
          /\ log[i].op = "copy"   => Follows(i, {"exists"})
          /\ log[i].op = "delete" => Follows(i, {"copy"})
          /\ log[i].op = "upload" => Follows(i, {"exists", "delete"})

\* a step that fails changes nothing in the container, so after a failed
\* existence-check or copy the target still holds what it held when the
\* publish began
C10_FailedStep ==
    (InPublish /\ log' # log /\ ~log'[Len(log')].ok) =>
        /\ store' = store
        /\ log'[Len(log')].op \in {"decode", "exists", "copy"} => store' = pre

\* C10: within one publish the steps run in the order existence-check, copy,
\* delete, upload, each only after the one before it succeeded: a failed
\* existence-check or copy leaves the target as it was and uploads nothing,
\* and whenever the old target is gone its copy is at the archive path.
C10_PublishOrder == []C10_PublishStates /\ [][C10_FailedStep]_vars

\* the old target was deleted and the upload is still to come
C10_Witness ==
    /\ pc = "upload"
    /\ existed
    /\ target \notin DOMAIN store
    /\ store[archive] = pre[target]

\* the archive objects of a sheet
IsArchiveOf(p, title) ==
    StartsWith(p, <<"D","A","T","A","S","E","T","/">> \o title
                      \o <<"/","A","r","c","h","i","v","e","/">> \o title
                      \o <<"_">>)

IsArchive(p) == IsSubstring(<<"/","A","r","c","h","i","v","e","/">>, p)

\* C4: with no storage failure, a publish that found an object at the target
\* path leaves exactly one new archive object of the sheet, and the new bytes
\* at the target path.
C4_ArchiveBeforeOverwrite ==
    [][(pc = "upload" /\ faults = 0 /\ faults' = 0
            /\ target \in DOMAIN pre) =>
          /\ Cardinality({p \in DOMAIN store' \ DOMAIN pre :
                              IsArchiveOf(p, sheet.title)}) = 1
          /\ target \in DOMAIN store'
          /\ store'[target] = png]_vars

C9_DisjointTargets ==
    (\A k \in DOMAIN log : log[k].ok) =>
        \A i, j \in DOMAIN log :
            (i # j /\ DecodedOk(i) /\ DecodedOk(j)) =>
                TargetPath(log[i].sheet) # TargetPath(log[j].sheet)

====
